---- MODULE Spec2Model ----
(***************************************************************************)
(* Model of src/src/main.rs: a benchmark sweep that starts successive     *)
(* httperf instances with growing queries, extracts one metric from each  *)
(* report, and plots the (query length, metric) series of each test kind. *)
(*                                                                         *)
(* Strings are sequences of one-character strings, so that joining,       *)
(* length and number parsing are computed rather than assumed.            *)
(* An f32 is a record [nan, v]: either NaN or a (small, exact) number.     *)
(***************************************************************************)
EXTENDS FiniteSets, Integers, Sequences, TLC

\* ------------------------------------------------------------------ bounds
\* Largest dictionary (number of query words on the command line).
MaxWords == 3

\* ------------------------------------------------------- program constants
BENCH_CMD == <<"h","t","t","p","e","r","f">>

SAMPLES == 10

DefaultTestsReordered == <<"ThroughputBytes", "Latency", "ThroughputReq">>

DEFAULT_TESTS == <<"Latency", "ThroughputBytes", "ThroughputReq">>

OUT_FILES ==
  << "multisampled_latency.png",
     "multisampled_throughput_bytes.png",
     "multisampled_throughput_requests.png" >>

\* Largest value of the u16 the port is parsed into.
U16_MAX == 65535

\* ------------------------------------------------------------- input sets
ProgName == <<"h","w","4">>
Addr == <<"h","o","s","t">>

\* Candidate port arguments: valid, non-numeric, overflowing, empty, signed.
PortStrings ==
  { <<"8","0">>,
    <<"6","5","5","3","5">>,
    <<"+","8">>,
    <<"a","b","c">>,
    <<"9","9","9","9","9","9","9","9">>,
    <<"6","5","5","3","6">>,
    <<>>,
    <<"-","1">> }

\* Candidate dictionary words (the empty word is a legal argument).
Words == { <<"c","a","t">>, <<"d","o","g","s">>, <<>> }

\* Text captured by group 1 of the extraction pattern.
Tokens == { <<"5">>, <<"1","2">>, <<"N","a","N">>, <<"N","/","A">> }

\* What one run of the external tool can yield: the process cannot be
\* executed, or it yields standard output that is not UTF-8, or text the
\* pattern does not match, or text whose group 1 is a token.
Outcomes ==
  { [exec |-> FALSE, utf8 |-> FALSE, match |-> FALSE, text |-> <<>>],
    [exec |-> TRUE,  utf8 |-> FALSE, match |-> FALSE, text |-> <<>>],
    [exec |-> TRUE,  utf8 |-> TRUE,  match |-> FALSE, text |-> <<>>] }
  \cup { [exec |-> TRUE, utf8 |-> TRUE, match |-> TRUE, text |-> t] : t \in Tokens }

\* -------------------------------------------------------- string helpers
Digits == {"0","1","2","3","4","5","6","7","8","9"}

DigitVal(c) ==
  CASE c = "0" -> 0 [] c = "1" -> 1 [] c = "2" -> 2 [] c = "3" -> 3
    [] c = "4" -> 4 [] c = "5" -> 5 [] c = "6" -> 6 [] c = "7" -> 7
    [] c = "8" -> 8 [] c = "9" -> 9

DigitChar(d) == <<"0","1","2","3","4","5","6","7","8","9">>[d + 1]

ParseErr == [ok |-> FALSE, v |-> 0]

\* Digit loop of the unsigned parse: checked multiply and add, any
\* non-digit is an error, as is a value above the type's maximum.
RECURSIVE ParseDigitsWrapping(_, _, _)
ParseDigitsWrapping(s, acc, max) ==
  IF s = <<>> THEN [ok |-> TRUE, v |-> acc]
  ELSE IF Head(s) \notin Digits THEN ParseErr
  ELSE ParseDigitsWrapping(Tail(s), (acc * 10 + DigitVal(Head(s))) % (max + 1), max)

RECURSIVE ParseDigits(_, _, _)
ParseDigits(s, acc, max) ==
  IF s = <<>> THEN [ok |-> TRUE, v |-> acc]
  ELSE IF Head(s) \notin Digits THEN ParseErr
  ELSE LET n == acc * 10 + DigitVal(Head(s))
       IN  IF n > max THEN ParseErr ELSE ParseDigits(Tail(s), n, max)

\* str::parse::<u16>: empty text and a lone sign are errors, one leading
\* "+" is accepted, "-" is not a digit.
ParseU16(s) ==
  IF s = <<>> THEN ParseErr
  ELSE IF Len(s) = 1 /\ Head(s) \in {"+", "-"} THEN ParseErr
  ELSE IF Head(s) = "+" THEN ParseDigits(Tail(s), 0, U16_MAX)
  ELSE ParseDigits(s, 0, U16_MAX)

\* u16::to_string: decimal digits, no sign, no padding.
RECURSIVE U16ToString(_)
U16ToString(n) ==
  IF n < 10 THEN <<DigitChar(n)>>
  ELSE U16ToString(n \div 10) \o <<DigitChar(n % 10)>>

\* ------------------------------------------------------------------- f32
F32(n) == [nan |-> FALSE, v |-> n]
NaN == [nan |-> TRUE, v |-> 0]

\* str::parse::<f32> on the tokens of the model: a run of digits is that
\* number (exact in an f32 up to 2^24), "NaN" is NaN, anything else is an
\* error.
ParseF32(s) ==
  IF s = <<"N","a","N">> THEN [ok |-> TRUE, v |-> NaN]
  ELSE IF s = <<>> THEN [ok |-> FALSE, v |-> NaN]
  ELSE LET d == ParseDigits(s, 0, 16777216)
       IN  [ok |-> d.ok, v |-> F32(d.v)]

\* f32::partial_cmp
PartialCmp(a, b) ==
  IF a.nan \/ b.nan THEN "None"
  ELSE IF a.v < b.v THEN "Less"
  ELSE IF a.v = b.v THEN "Equal"
  ELSE "Greater"

\* The comparator a.partial_cmp(b).unwrap() panics on NaN; a sort of two or
\* more elements compares every element at least once.
SortPanics(s) == Len(s) >= 2 /\ \E j \in 1..Len(s) : s[j].nan

RECURSIVE Insert(_, _)
Insert(x, s) ==
  IF s = <<>> THEN <<x>>
  ELSE IF PartialCmp(x, Head(s)) = "Less" THEN <<x>> \o s
  ELSE <<Head(s)>> \o Insert(x, Tail(s))

RECURSIVE SortedFrom(_, _)
SortedFrom(s, acc) ==
  IF s = <<>> THEN acc ELSE SortedFrom(Tail(s), Insert(Head(s), acc))

Unsorted(s) == s

\* Vec::sort_by with the partial_cmp comparator (no panic case).
SortBy(s) == IF Len(s) < 2 THEN s ELSE SortedFrom(s, <<>>)

\* ----------------------------------------------------------- query build
RECURSIVE Reduce(_, _)
Reduce(acc, rest) ==
  IF rest = <<>> THEN acc
  ELSE Reduce(acc \o <<"+">> \o Head(rest), Tail(rest))

BuildQueryExclusive(dict, idx) ==
  IF idx = 0 THEN dict[1]
  ELSE Reduce(dict[1], SubSeq(dict, 2, idx))

\* (&dictionary[0..=i]).iter().cloned().reduce(|a, b| format!("{a}+{b}"))
\* for the 0-based step idx: a left fold over the first idx+1 words.
BuildQuery(dict, idx) == Reduce(dict[1], SubSeq(dict, 2, idx + 1))

UriPrefix == <<"/","q","u","e","r","y","?","t","e","r","m","s","=">>

\* format!("/query?terms={}", query)
QueryUrl(q) == UriPrefix \o q

\* The kind-specific argument closure.
QueryArgs(kind) ==
  IF kind = "Latency" THEN "--num-calls" ELSE "--num-conns"

\* The command line of one external invocation.
TestCmd(addr, p, q, kind) ==
  [ cmd |-> BENCH_CMD,
    args |-> << "--server", addr, "--port", U16ToString(p),
                "--uri", QueryUrl(q), QueryArgs(kind), U16ToString(SAMPLES) >>,
    kind |-> kind ]

\* parse_output: the panic message, or "" and the rate.
ParseOutputOf(out) ==
  IF ~out.utf8 THEN [panic |-> "Test had no output.", rate |-> NaN]
  ELSE IF ~out.match THEN [panic |-> "No reply rate in test output.", rate |-> NaN]
  ELSE LET r == ParseF32(out.text)
       IN  IF ~r.ok
           THEN [panic |-> "Reply rate from test was not a valid integer.", rate |-> NaN]
           ELSE [panic |-> "", rate |-> r.v]

\* ---------------------------------------------------------------- bounds
Xs(series) == [j \in 1..Len(series) |-> series[j][1]]
Ys(series) == [j \in 1..Len(series) |-> series[j][2]]

NoBounds == [min_x |-> NaN, max_x |-> NaN, min_y |-> NaN, max_y |-> NaN]

\* Lines 183-193: both projections are sorted, then the first and the last
\* element of each are taken; the panic message, or "" and the bounds.
BoundsOf(series) ==
  IF SortPanics(Xs(series)) \/ SortPanics(Ys(series))
  THEN [panic |-> "called Option::unwrap on a None value", b |-> NoBounds]
  ELSE IF series = <<>>
  THEN [panic |-> "index out of bounds", b |-> NoBounds]
  ELSE LET sx == SortBy(Xs(series))
           sy == SortBy(Ys(series))
       IN  [ panic |-> "",
             b |-> [ min_x |-> sx[1], max_x |-> sx[Len(sx)],
                     min_y |-> sy[1], max_y |-> sy[Len(sy)] ] ]

\* ----------------------------------------------------------------- state
VARIABLES
  args,        \* the command line: program name, then the arguments
  pc,          \* position of the single flow of control
  stdout,      \* lines printed to standard output
  panicMsg,    \* message of the panic that ended the process, or ""
  server_addr, \* main: first argument
  port,        \* main: parsed second argument
  dictionary,  \* main: remaining arguments
  mainI,       \* main: 0-based index of the loop over the test kinds
  buf,         \* do_test: the series collected so far
  i,           \* do_test: 0-based index of the sweep loop
  query,       \* do_test: query of the current step
  test_out,    \* do_test: output of the external tool, to be parsed
  bounds,      \* do_test: axis extents
  files,       \* image files present on disk
  inFlight,    \* external processes started and not yet returned
  invLog,      \* history: command line of every external invocation
  queries,     \* history: queries built in the current sweep
  rates,       \* history: rates parsed in the current sweep
  rendered,    \* history: kinds whose chart was drawn without error
  renderFailed \* history: kinds whose chart drawing returned an error

vars ==
  << args, pc, stdout, panicMsg, server_addr, port, dictionary, mainI, buf, i,
     query, test_out, bounds, files, inFlight, invLog, queries, rates, rendered,
     renderFailed >>

NoOut == [exec |-> FALSE, utf8 |-> FALSE, match |-> FALSE, text |-> <<>>]

RECURSIVE SeqsUpTo(_, _)
SeqsUpTo(S, n) ==
  IF n = 0 THEN { <<>> }
  ELSE LET shorter == SeqsUpTo(S, n - 1)
       IN  shorter \cup { Append(s, w) : s \in shorter, w \in S }

\* Command lines: the program name alone, with an address, or with an
\* address, a port and up to MaxWords words.
ArgLists ==
  { <<ProgName>>, <<ProgName, Addr>> }
  \cup { <<ProgName, Addr, p>> \o d : p \in PortStrings, d \in SeqsUpTo(Words, MaxWords) }

Init ==
  /\ args \in ArgLists
  /\ pc = "main"
  /\ stdout = <<>>
  /\ panicMsg = ""
  /\ server_addr = <<>>
  /\ port = 0
  /\ dictionary = <<>>
  /\ mainI = 0
  /\ buf = <<>>
  /\ i = 0
  /\ query = <<>>
  /\ test_out = NoOut
  /\ bounds = NoBounds
  /\ files = {}
  /\ inFlight = 0
  /\ invLog = <<>>
  /\ queries = <<>>
  /\ rates = <<>>
  /\ rendered = {}
  /\ renderFailed = {}

\* The current Test handed to do_test.
Kind == DEFAULT_TESTS[mainI + 1]
OutFile == OUT_FILES[mainI + 1]

Panic(msg) ==
  /\ pc' = "panicked"
  /\ panicMsg' = msg

UsageLine ==
  <<".", "/">> \o ProgName \o
  <<" ", "<server_addr> <port_number> <query_word1> <query_word2> ...">>

\* --------------------------------------------------------------- actions
\* main without the usage branch.
MainNoUsage ==
  /\ pc = "main"
  /\ IF Len(args) < 2
     THEN /\ Panic("Missing server address.")
          /\ UNCHANGED <<server_addr, port, dictionary>>
     ELSE IF Len(args) < 3
     THEN /\ Panic("Missing port number.")
          /\ UNCHANGED <<server_addr, port, dictionary>>
     ELSE LET p == ParseU16(args[3])
          IN  IF ~p.ok
              THEN /\ Panic("Invalid port number.")
                   /\ UNCHANGED <<server_addr, port, dictionary>>
              ELSE /\ server_addr' = args[2]
                   /\ port' = p.v
                   /\ dictionary' = SubSeq(args, 4, Len(args))
                   /\ pc' = "main_loop"
                   /\ UNCHANGED panicMsg
  /\ UNCHANGED << args, stdout, mainI, buf, i, query, test_out, bounds, files,
                  inFlight, invLog, queries, rates, rendered, renderFailed >>

\* main, lines 68-89: usage when the program name is the only argument,
\* else the address, the port and the dictionary are taken in turn.
Main ==
  /\ pc = "main"
  /\ IF Len(args) = 1
     THEN /\ stdout' = Append(stdout, UsageLine)
          /\ pc' = "exited"
          /\ UNCHANGED <<panicMsg, server_addr, port, dictionary>>
     ELSE IF Len(args) < 2
     THEN /\ Panic("Missing server address.")
          /\ UNCHANGED <<stdout, server_addr, port, dictionary>>
     ELSE IF Len(args) < 3
     THEN /\ Panic("Missing port number.")
          /\ UNCHANGED <<stdout, server_addr, port, dictionary>>
     ELSE LET p == ParseU16(args[3])
          IN  IF ~p.ok
              THEN /\ Panic("Invalid port number.")
                   /\ UNCHANGED <<stdout, server_addr, port, dictionary>>
              ELSE /\ server_addr' = args[2]
                   /\ port' = p.v
                   /\ dictionary' = SubSeq(args, 4, Len(args))
                   /\ pc' = "main_loop"
                   /\ UNCHANGED <<stdout, panicMsg>>
  /\ UNCHANGED << args, mainI, buf, i, query, test_out, bounds, files,
                  inFlight, invLog, queries, rates, rendered, renderFailed >>

\* main, lines 91-99, and the head of do_test, lines 103-145: the next kind's
\* sweep starts with an empty series, or main returns after the third.
MainLoop ==
  /\ pc = "main_loop"
  /\ IF mainI < 3
     THEN /\ buf' = <<>>
          /\ i' = 0
          /\ bounds' = NoBounds
          /\ queries' = <<>>
          /\ rates' = <<>>
          /\ pc' = "loop"
     ELSE /\ pc' = "exited"
          /\ UNCHANGED <<buf, i, bounds, queries, rates>>
  /\ UNCHANGED << args, stdout, panicMsg, server_addr, port, dictionary, mainI,
                  query, test_out, files, inFlight, invLog, rendered,
                  renderFailed >>

\* do_test, lines 147-174: the loop test, the query of step i, and the start
\* of the external process; after the last step the loop is left.
SweepStep ==
  /\ pc = "loop"
  /\ IF i < Len(dictionary)
     THEN LET q == BuildQuery(dictionary, i)
          IN  /\ query' = q
              /\ queries' = Append(queries, q)
              /\ invLog' = Append(invLog, TestCmd(server_addr, port, q, Kind))
              /\ inFlight' = inFlight + 1
              /\ pc' = "invoking"
     ELSE /\ pc' = "bounds"
          /\ UNCHANGED <<query, queries, invLog, inFlight>>
  /\ UNCHANGED << args, stdout, panicMsg, server_addr, port, dictionary, mainI,
                  buf, i, test_out, bounds, files, rates, rendered,
                  renderFailed >>

\* The process is started but not waited for.
InvokeSpawnOnly ==
  /\ pc = "invoking"
  /\ \E out \in Outcomes :
       /\ test_out' = out
       /\ IF ~out.exec
          THEN Panic("Failed to execute test.")
          ELSE pc' = "parsing" /\ UNCHANGED panicMsg
  /\ UNCHANGED << args, stdout, server_addr, port, dictionary, mainI, buf, i,
                  query, bounds, files, inFlight, invLog, queries, rates,
                  rendered, renderFailed >>

\* do_test, line 174: Command::output blocks until the process has exited
\* and yields its output, or the process could not be executed.
InvokeReturn ==
  /\ pc = "invoking"
  /\ \E out \in Outcomes :
       /\ test_out' = out
       /\ inFlight' = inFlight - 1
       /\ IF ~out.exec
          THEN Panic("Failed to execute test.")
          ELSE pc' = "parsing" /\ UNCHANGED panicMsg
  /\ UNCHANGED << args, stdout, server_addr, port, dictionary, mainI, buf, i,
                  query, bounds, files, invLog, queries, rates, rendered,
                  renderFailed >>

PushFront(b, sample) == <<sample>> \o b

\* Vec::push, line 178
Push(b, sample) == Append(b, sample)

\* A report that cannot be parsed is skipped and the sweep goes on.
ParseOutputSkip ==
  /\ pc = "parsing"
  /\ LET r == ParseOutputOf(test_out)
     IN  IF r.panic # ""
         THEN UNCHANGED <<buf, rates>>
         ELSE /\ buf' = Push(buf, <<F32(Len(query)), r.rate>>)
              /\ rates' = Append(rates, r.rate)
  /\ i' = i + 1
  /\ pc' = "loop"
  /\ UNCHANGED << args, stdout, panicMsg, server_addr, port, dictionary, mainI,
                  query, test_out, bounds, files, inFlight, invLog, queries,
                  rendered, renderFailed >>

\* do_test, lines 177-181: parse_output, then the sample (query length,
\* rate) is pushed and the loop index advances.
ParseOutput ==
  /\ pc = "parsing"
  /\ LET r == ParseOutputOf(test_out)
     IN  IF r.panic # ""
         THEN /\ Panic(r.panic)
              /\ UNCHANGED <<buf, rates, i>>
         ELSE /\ buf' = Push(buf, <<F32(Len(query)), r.rate>>)
              /\ rates' = Append(rates, r.rate)
              /\ i' = i + 1
              /\ pc' = "loop"
              /\ UNCHANGED panicMsg
  /\ UNCHANGED << args, stdout, server_addr, port, dictionary, mainI, query,
                  test_out, bounds, files, inFlight, invLog, queries, rendered,
                  renderFailed >>

\* do_test, lines 183-193
ComputeBounds ==
  /\ pc = "bounds"
  /\ LET r == BoundsOf(buf)
     IN  IF r.panic # ""
         THEN Panic(r.panic) /\ UNCHANGED bounds
         ELSE /\ bounds' = r.b
              /\ pc' = "render"
              /\ UNCHANGED panicMsg
  /\ UNCHANGED << args, stdout, server_addr, port, dictionary, mainI, buf, i,
                  query, test_out, files, inFlight, invLog, queries, rates,
                  rendered, renderFailed >>

\* The messages of the expects on the charting calls, lines 197-220.
RenderPanics ==
  { "Couldn't fill plot.", "Couldn't make plot canvas.", "Couldn't draw plot.",
    "Couldn't draw series." }

\* A chart that cannot be drawn is given up and the next kind is swept.
RenderTolerant ==
  /\ pc = "render"
  /\ \E err \in RenderPanics \cup {""} :
       IF err = ""
       THEN /\ files' = files \cup {OutFile}
            /\ rendered' = rendered \cup {Kind}
            /\ UNCHANGED renderFailed
       ELSE /\ renderFailed' = renderFailed \cup {Kind}
            /\ UNCHANGED <<files, rendered>>
  /\ buf' = <<>>
  /\ mainI' = mainI + 1
  /\ pc' = "main_loop"
  /\ UNCHANGED << args, stdout, panicMsg, server_addr, port, dictionary, i,
                  query, test_out, bounds, inFlight, invLog, queries, rates >>

\* do_test, lines 196-221: the chart is drawn by the charting library, any
\* of whose calls may return an error (whatever the bounds: the library
\* decides what it does with equal extents), and each error is expected
\* away. On success the image is on disk when do_test returns, the series
\* having been moved into the chart; on a panic the backend is dropped
\* while unwinding, and whether it then leaves a file is the library's.
Render ==
  /\ pc = "render"
  /\ \E err \in RenderPanics \cup {""} :
       IF err = ""
       THEN /\ files' = files \cup {OutFile}
            /\ rendered' = rendered \cup {Kind}
            /\ buf' = <<>>
            /\ mainI' = mainI + 1
            /\ pc' = "main_loop"
            /\ UNCHANGED <<panicMsg, renderFailed>>
       ELSE /\ Panic(err)
            /\ renderFailed' = renderFailed \cup {Kind}
            /\ \E wrote \in BOOLEAN :
                 files' = IF wrote THEN files \cup {OutFile} ELSE files
            /\ UNCHANGED <<rendered, buf, mainI>>
  /\ UNCHANGED << args, stdout, server_addr, port, dictionary, i, query,
                  test_out, bounds, inFlight, invLog, queries, rates >>

Next ==
  \/ Main
  \/ MainLoop
  \/ SweepStep
  \/ InvokeReturn
  \/ ParseOutput
  \/ ComputeBounds
  \/ Render

Spec == Init /\ [][Next]_vars

\* ------------------------------------------------------------ properties
InSweep == pc \in {"loop", "invoking", "parsing", "bounds", "render"}

\* The first n words joined by "+", written from the right.
RECURSIVE JoinPlus(_)
JoinPlus(ws) ==
  IF Len(ws) = 1 THEN ws[1] ELSE ws[1] \o <<"+">> \o JoinPlus(Tail(ws))

\* C1: the sweep loop builds one query per dictionary word, and query j
\* (counted from 1) is the first j words, in order and unchanged, joined by
\* "+" with no separator before or after; once the loop is left there are
\* exactly as many queries as words.
C1_QueriesArePrefixes ==
  /\ Len(queries) <= Len(dictionary)
  /\ \A j \in 1..Len(queries) : queries[j] = JoinPlus(SubSeq(dictionary, 1, j))
  /\ pc \in {"bounds", "render"} => Len(queries) = Len(dictionary)

C1_Witness ==
  /\ pc = "bounds"
  /\ Len(dictionary) >= 2
  /\ Len(queries) = Len(dictionary)
  /\ dictionary[1] # dictionary[2]

\* C2: during a sweep the series is as long as the number of steps whose
\* invocation and parse have both completed, sample j is (length of query
\* j, rate parsed at step j), and when the loop has completed the series is
\* as long as the dictionary.
C2_SeriesMatchesSteps ==
  InSweep =>
    /\ Len(buf) = Len(rates)
    /\ Len(buf) = i
    /\ \A j \in 1..Len(buf) :
         buf[j] = << F32(Len(JoinPlus(SubSeq(dictionary, 1, j)))), rates[j] >>
    /\ pc \in {"bounds", "render"} => Len(buf) = Len(dictionary)

C2_Witness ==
  /\ pc = "render"
  /\ Len(buf) >= 2
  /\ Len(buf) = Len(dictionary)
  /\ buf[1][2] # buf[2][2]

\* C3: an external invocation is in flight exactly while the flow waits for
\* it, never two at once, and when the invocation of a step is started the
\* invocation and the parse of every earlier step have completed.
C3_OneInvocationAtATime ==
  /\ inFlight \in {0, 1}
  /\ (inFlight = 1) <=> (pc = "invoking")
  /\ pc = "invoking" =>
       /\ Len(queries) = Len(rates) + 1
       /\ Len(buf) = Len(queries) - 1
  /\ (InSweep /\ pc # "invoking") => Len(queries) \in {Len(rates), Len(rates) + 1}
  /\ pc = "loop" => Len(queries) = Len(rates)

C3_Witness ==
  /\ pc = "invoking"
  /\ Len(queries) = 2
  /\ Len(rates) = 1
  /\ inFlight = 1

\* C4 (as stated): with fewer than 3 arguments after the program name the
\* program prints the usage line, ends without error and starts neither an
\* external invocation nor a sweep.
C4_Claim ==
  Len(args) <= 3 =>
    /\ pc # "panicked"
    /\ ~InSweep
    /\ pc = "exited" => stdout = <<UsageLine>>
    /\ invLog = <<>>

\* C4 (amended): with no argument after the program name the program prints
\* the usage line and ends without error; with one argument it stops with
\* the missing-port error; with one or two it prints no usage line; in all
\* three cases no external invocation is made and no image is written.
C4_UsageOnlyWithoutArguments ==
  /\ (Len(args) = 1 /\ pc # "main") =>
       /\ pc = "exited"
       /\ stdout = <<UsageLine>>
       /\ panicMsg = ""
  /\ (Len(args) = 2 /\ pc # "main") =>
       /\ pc = "panicked"
       /\ panicMsg = "Missing port number."
  /\ Len(args) \in {2, 3} => stdout = <<>>
  /\ Len(args) <= 3 =>
       /\ invLog = <<>>
       /\ inFlight = 0
       /\ files = {}
       /\ rendered = {}

C4_Witness ==
  /\ Len(args) = 1
  /\ pc = "exited"
  /\ stdout = <<UsageLine>>

\* The failures of a sweep step: the tool cannot be executed, its output is
\* not UTF-8, the pattern does not match, the captured text is not a number.
BadOutcome(out) ==
  \/ ~out.exec
  \/ ~out.utf8
  \/ ~out.match
  \/ out.text = <<"N","/","A">>

LastFailed == invLog # <<>> /\ pc # "invoking" /\ BadOutcome(test_out)

StepPanics ==
  { "Failed to execute test.", "Test had no output.",
    "No reply rate in test output.",
    "Reply rate from test was not a valid integer." }

\* C5: once a step of a sweep has failed, the very next step of the program
\* is the abort; the failed step was invoked once, no invocation follows
\* it, and the images on disk are those of the kinds before the failing
\* one; nothing happens after the abort.
C5_FailFast ==
  /\ [](LastFailed =>
          /\ pc \in {"parsing", "panicked"}
          /\ pc = "panicked" => panicMsg \in StepPanics
          /\ inFlight = 0
          /\ Len(invLog) = mainI * Len(dictionary) + i + 1
          /\ files = { OUT_FILES[k] : k \in 1..mainI })
  /\ [][ /\ LastFailed => pc' = "panicked"
         /\ pc = "panicked" => (invLog' = invLog /\ files' = files) ]_vars

C5_Witness ==
  /\ pc = "panicked"
  /\ panicMsg = "No reply rate in test output."
  /\ mainI = 1
  /\ i = 1
  /\ Len(invLog) = Len(dictionary) + 2

\* C6 (as stated): a render failure in one kind's sweep does not crash the
\* program.
C6_Claim == renderFailed # {} => pc # "panicked"

\* C6 (amended): a render failure in one kind's sweep aborts the whole
\* program at once: the kinds after it are never swept (no invocation, no
\* chart, no image), and the kinds before it keep their images.
C6_RenderFailureAborts ==
  renderFailed # {} =>
    /\ pc = "panicked"
    /\ panicMsg \in RenderPanics
    /\ renderFailed = {DEFAULT_TESTS[mainI + 1]}
    /\ Len(invLog) = (mainI + 1) * Len(dictionary)
    /\ rendered = { DEFAULT_TESTS[k] : k \in 1..mainI }
    /\ \A k \in 1..mainI : OUT_FILES[k] \in files
    /\ \A k \in (mainI + 2)..3 : OUT_FILES[k] \notin files

C6_Witness ==
  /\ renderFailed = {"Latency"}
  /\ pc = "panicked"
  /\ Len(dictionary) = 1
  /\ bounds.min_x = bounds.max_x

\* C7: bounds are only ever computed over a non-empty series; with an empty
\* dictionary the sweep is refused: no bounds computation, no external
\* invocation, no image.
C7_Claim ==
  /\ pc = "bounds" => Len(buf) > 0
  /\ panicMsg # "index out of bounds"
  /\ (pc # "main" /\ Len(args) = 3) => (invLog = <<>> /\ files = {})

\* v is the least (greatest) of the values vals, taken by themselves; a
\* single value is its own least and greatest.
IsMin(v, vals) ==
  /\ \E j \in 1..Len(vals) : vals[j] = v
  /\ Len(vals) > 1 => \A j \in 1..Len(vals) : ~vals[j].nan /\ v.v <= vals[j].v

IsMax(v, vals) ==
  /\ \E j \in 1..Len(vals) : vals[j] = v
  /\ Len(vals) > 1 => \A j \in 1..Len(vals) : ~vals[j].nan /\ v.v >= vals[j].v

Permuted(s, f) == [j \in 1..Len(s) |-> s[f[j]]]

\* C8: the bounds computed over the series are the least and greatest x and
\* the least and greatest y, each axis by itself, and every reordering of
\* the series gives the same bounds.
C8_BoundsAreExtremes ==
  pc = "render" =>
    /\ Len(buf) > 0
    /\ IsMin(bounds.min_x, Xs(buf))
    /\ IsMax(bounds.max_x, Xs(buf))
    /\ IsMin(bounds.min_y, Ys(buf))
    /\ IsMax(bounds.max_y, Ys(buf))
    /\ \A f \in Permutations(1..Len(buf)) :
         BoundsOf(Permuted(buf, f)) = [panic |-> "", b |-> bounds]

C8_Witness ==
  /\ pc = "render"
  /\ Len(buf) >= 3
  /\ buf[1][2].v > buf[2][2].v
  /\ buf[2][2].v < buf[3][2].v

\* Port arguments that are not an unsigned 16-bit integer.
BadPorts ==
  { <<"a","b","c">>, <<"9","9","9","9","9","9","9","9">>,
    <<"6","5","5","3","6">>, <<>>, <<"-","1">> }

\* C9: with a port argument that is not an unsigned 16-bit integer the
\* program stops with the port error before any external invocation, any
\* sweep and any image.
C9_BadPortStopsFirst ==
  (Len(args) >= 3 /\ args[3] \in BadPorts) =>
    /\ pc \in {"main", "panicked"}
    /\ pc = "panicked" => panicMsg = "Invalid port number."
    /\ invLog = <<>>
    /\ inFlight = 0
    /\ files = {}
    /\ rendered = {}

C9_Witness ==
  /\ pc = "panicked"
  /\ panicMsg = "Invalid port number."
  /\ Len(args) > 3
  /\ args[3] = <<"9","9","9","9","9","9","9","9">>

KindOrder == <<"Latency", "ThroughputBytes", "ThroughputReq">>

\* C10: the invocations come kind by kind in the order Latency,
\* ThroughputBytes, ThroughputReq, one sweep of the whole dictionary each;
\* an invocation of a kind is made only when every kind before it has
\* collected its samples and has its image; at most one invocation is in
\* flight; a run that ends normally has made 3*n invocations.
C10_KindsInOrder ==
  /\ inFlight <= 1
  /\ \A j \in 1..Len(invLog) :
       LET k == ((j - 1) \div Len(dictionary)) + 1
       IN  /\ k <= 3
           /\ invLog[j].kind = KindOrder[k]
           /\ invLog[j].args[6] =
                QueryUrl(JoinPlus(SubSeq(dictionary, 1, ((j - 1) % Len(dictionary)) + 1)))
           /\ \A e \in 1..(k - 1) :
                KindOrder[e] \in rendered /\ OUT_FILES[e] \in files
  /\ (pc = "exited" /\ Len(args) > 1) =>
       /\ Len(invLog) = 3 * Len(dictionary)
       /\ rendered = {KindOrder[k] : k \in 1..3}

C10_Witness ==
  /\ pc = "exited"
  /\ Len(dictionary) = 2
  /\ Len(invLog) = 6
  /\ invLog[6].kind = "ThroughputReq"

====
